---- MODULE Spec2Model ----
(***************************************************************************)
(* A model of ppscan.py (palmprint identification): the matcher            *)
(* (img_to_binary, calculate_hamming, translate_image, matching), the      *)
(* decision step of main(), the ROI normaliser transform_to_roi, the       *)
(* preprocessing (interpol2d, find_tangent_points, neighbourhood_curvature,*)
(* find_valleys, find_keypoints, apply_gabor_filters) and the database     *)
(* functions.  Every function has a specification of its own; while one   *)
(* runs, the variables of the others keep their idle values.               *)
(*                                                                         *)
(* An image is a record [rows, cols, px] with px the sequence of its       *)
(* rows, each a sequence of pixel values; At(img, y, x) reads row y,       *)
(* column x, both counted from 0 as numpy does.  A distance is kept as     *)
(* the exact fraction num/den that the float division of the code rounds;  *)
(* fractions are compared by cross-multiplication.                         *)
(***************************************************************************)
EXTENDS Integers, Sequences, FiniteSets, TLC

VARIABLES
    \* calculate_hamming as a function: its inputs, position and outcome
    h_a, h_b, h_pc, h_out,
    \* matching(): the query and template codes, their masks, the position,
    \* the offsets evaluated so far, the list of distances and the score
    img_to_match, img_template, mask_to_match, mask_template,
    m_pc, m_evaluated, hamming_distances, m_score,
    \* main(): the query code, the stored palmprints, the position, the
    \* list of Match tuples, the best match and the outcome
    filtered_roi, palmprints_list, v_pc, hamming_scores, m_min, v_outcome,
    \* transform_to_roi: the image's shape <<rows, cols>>, the keypoints
    \* <<x, y>>, the position, whether a / b was computed, the exception, and
    \* the shapes of the rotated image and of the ROI
    img_shape, p_min, p_max, r_pc, r_divided, r_exc, rotated, cropped,
    \* find_keypoints: the list of valleys, the interpolated valleys, the
    \* positions of v_1 and v_2 in that list, the pair find_tangent_points
    \* returned, the position and the exception
    valleys, valleys_interp, k_first, k_last, kp, k_pc, k_exc,
    \* neighbourhood_curvature: the binary image, the point <<x, y>>, the
    \* number of neighbours, the radius, the position, the list of values
    \* read, the positions <<y, x>> read, and the value returned
    c_img, c_p, c_n, c_r, c_pc, neighvals, c_reads, c_ret,
    \* find_valleys: for every contour point whether it passes the test of
    \* lines 571-575, the loop index i, the valleys (lists of contour
    \* indices), last, idx, the position and the exception
    qualifies, f_i, f_valleys, last, idx, f_pc, f_exc,
    \* apply_gabor_filters: the ROI, the responses cv.filter2D gives for the
    \* filters of the bank, the merged image, the number of filters applied
    \* and the position
    g_img, g_responses, merged_img, g_applied, g_pc,
    \* the database: the rows of the tables users and palmprints, and the
    \* exception of the last call ("none" if it returned)
    users, palmprints, s_exc,
    \* interpol2d: the points, the number of steps, whether the build of
    \* np.interp fuses its multiply and add, the sample positions s, the
    \* interpolated x and y, the list returned and the position
    i_points, i_steps, i_fused, i_s, i_x, i_y, i_out, i_pc

h_vars == <<h_a, h_b, h_pc, h_out>>

m_vars == <<img_to_match, img_template, mask_to_match, mask_template,
            m_pc, m_evaluated, hamming_distances, m_score>>

v_vars == <<filtered_roi, palmprints_list, v_pc, hamming_scores, m_min, v_outcome>>

r_vars == <<img_shape, p_min, p_max, r_pc, r_divided, r_exc, rotated, cropped>>

k_vars == <<valleys, valleys_interp, k_first, k_last, kp, k_pc, k_exc>>

\* the variables of the functions of the preprocessing and of the store
c_vars == <<c_img, c_p, c_n, c_r, c_pc, neighvals, c_reads, c_ret>>

f_vars == <<qualifies, f_i, f_valleys, last, idx, f_pc, f_exc>>

g_vars == <<g_img, g_responses, merged_img, g_applied, g_pc>>

s_vars == <<users, palmprints, s_exc>>

i_vars == <<i_points, i_steps, i_fused, i_s, i_x, i_y, i_out, i_pc>>

x_vars == <<k_vars, c_vars, f_vars, g_vars, s_vars, i_vars>>

vars == <<h_vars, m_vars, v_vars, r_vars, x_vars>>

(***************************************************************************)
(* Bounds of the model and constants of the program.                       *)
(***************************************************************************)

\* longest code vector drawn for the calculate_hamming specification
MaxLen == 3

\* largest side of a code image drawn for matching()
MaxSide == 6

\* translate_image compares img[2:-2, 2:-2]: the crop drops INSET pixels
\* on every side
INSET == 2

\* smallest side drawn: the smallest whose inset crop is not empty (the
\* program's codes are 150 x 150; an empty crop is outside the model)
MinSide == 2 * INSET + 1

\* most palmprints stored when main() runs
MaxTemplates == 2

\* keypoint coordinates are drawn from the multiples 0 .. MaxCell - 1 of
\* Pitch; the image sides are MaxCell and MaxCell + 1 times Pitch
MaxCell == 6

ROI_RAD == 75

\* x_start = p_min[0] + 10
X_OFFSET == 10

Pitch == (2 * ROI_RAD) \div 3

\* THRESH_HAMMING = 0.43, as a fraction
THRESH_HAMMING == [kind |-> "ok", num |-> 43, den |-> 100]

\* GABOR_THRESHOLD: a merged response equal to it is left as it is
GABOR_THRESHOLD == 150

\* the pixel values the inputs are drawn from: the two binary sentinels
\* 0 and 255 of a texture code, and the non-binary values 1 and 150
Palette == {0, 1, GABOR_THRESHOLD, 255}

(***************************************************************************)
(* Images and numpy helpers.                                               *)
(***************************************************************************)

\* the value of an image variable of a function that is not running
Idle == [rows |-> 0, cols |-> 0, px |-> <<>>]

\* img[y, x]
At(img, y, x) == img.px[y + 1][x + 1]

Pixels(rows, cols) == (0 .. rows - 1) \X (0 .. cols - 1)

\* ndarray.flatten(): the pixels in row-major order, as a sequence
flatten(img) ==
    [i \in 1 .. img.rows * img.cols |->
        At(img, (i - 1) \div img.cols, (i - 1) % img.cols)]

\* img_to_binary with its second comparison off by one (>= 1 for > 1):
\* every value becomes False
img_to_binary_ge(img) ==
    LET flattened == flatten(img)
        step1 == [i \in DOMAIN flattened |->
                    IF flattened[i] = 0 THEN 1 ELSE flattened[i]]
    IN  [i \in DOMAIN step1 |-> IF step1[i] >= 1 THEN 0 ELSE step1[i]]

\* img_to_binary: flatten, then 0 becomes True (1), then every value
\* above 1 becomes False (0); a value of 1 is left as it is
img_to_binary(img) ==
    LET flattened == flatten(img)
        step1 == [i \in DOMAIN flattened |->
                    IF flattened[i] = 0 THEN 1 ELSE flattened[i]]
    IN  [i \in DOMAIN step1 |-> IF step1[i] > 1 THEN 0 ELSE step1[i]]

Dist(n, d) == [kind |-> "ok", num |-> n, den |-> d]

Raised(name) == [kind |-> name, num |-> 0, den |-> 1]

\* Python's None, and an integer pixel position (x, y)
None == [kind |-> "None", x |-> 0, y |-> 0]

Pixel(px, py) == [kind |-> "pixel", x |-> px, y |-> py]

\* scipy.spatial.distance.hamming(u, v): ValueError for vectors of
\* different length, else the fraction of positions that differ
hamming(u, v) ==
    IF Len(u) # Len(v)
    THEN Raised("ValueError")
    ELSE Dist(Cardinality({i \in DOMAIN u : u[i] # v[i]}), Len(u))

\* calculate_hamming: the library distance of the two binarised images
\* (the masked computation is commented out in the source)
calculate_hamming(query, template) ==
    hamming(img_to_binary(query), img_to_binary(template))

\* a[start:stop] on an axis of length n, as Python normalises it: a
\* negative index counts from the end, and both ends are clipped to 0 .. n
SliceIndex(n, i) ==
    IF i < 0 THEN (IF i + n < 0 THEN 0 ELSE i + n) ELSE (IF i > n THEN n ELSE i)

SliceLen(n, start, stop) ==
    LET a == SliceIndex(n, start)
        b == SliceIndex(n, stop)
    IN  IF b > a THEN b - a ELSE 0

\* img[y0:y1, x0:x1]
Slice2D(img, y0, y1, x0, x1) ==
    LET r0 == SliceIndex(img.rows, y0)
        c0 == SliceIndex(img.cols, x0)
        nr == SliceLen(img.rows, y0, y1)
        nc == SliceLen(img.cols, x0, x1)
    IN  [rows |-> nr, cols |-> nc,
         px |-> [y \in 1 .. nr |->
                    [x \in 1 .. nc |-> At(img, y - 1 + r0, x - 1 + c0)]]]

\* seq[i] with Python's indexing: from 0, a negative index from the end
PyIndex(seq, i) == IF i >= 0 THEN seq[i + 1] ELSE seq[Len(seq) + i + 1]

\* cv.warpAffine(img, [[1, 0, tx], [0, 1, ty]], (width, height)): the
\* result has `height` rows and `width` columns; pixel (y, x) is the
\* source pixel (y - ty, x - tx), or 0 outside the source
warpAffine(img, tx, ty, width, height) ==
    [rows |-> height, cols |-> width,
     px |-> [y \in 1 .. height |->
                [x \in 1 .. width |->
                    IF /\ y - 1 - ty \in 0 .. img.rows - 1
                       /\ x - 1 - tx \in 0 .. img.cols - 1
                    THEN At(img, y - 1 - ty, x - 1 - tx)
                    ELSE 0]]]

LessThan(a, b) == a.num * b.den < b.num * a.den

Leq(a, b) == a.num * b.den <= b.num * a.den

SameValue(a, b) == a.num * b.den = b.num * a.den

\* min(list) taken for the first element of the list
min_first(list) == list[1]

\* Python's min(list): of the elements that no element is less than, the
\* first one (every element before it is greater)
min(list) ==
    list[CHOOSE i \in 1 .. Len(list) :
            /\ \A j \in 1 .. Len(list) : ~LessThan(list[j], list[i])
            /\ \A j \in 1 .. i - 1 : LessThan(list[i], list[j])]

(***************************************************************************)
(* The matcher.                                                            *)
(***************************************************************************)

trans_x == <<-1, 0, 1, 1, 1, 0, -1, -1, -2, 0, 2, 2, 2, 0, -2, -2>>

trans_y == <<-1, -1, -1, 0, 1, 1, 1, 0, -2, -2, -2, 0, 2, 2, 2, 0>>

\* translate_image: shift the query, compare the inset crops; an
\* exception of the comparison becomes the distance 1.0
translate_image(query, template, tx, ty) ==
    LET img_slided == warpAffine(query, tx, ty, query.rows, query.cols)
        hamming_distance ==
            calculate_hamming(Slice2D(img_slided, INSET, -INSET, INSET, -INSET),
                              Slice2D(template, INSET, -INSET, INSET, -INSET))
    IN  IF hamming_distance.kind = "ok" THEN hamming_distance ELSE Dist(1, 1)

\* the offset the k-th pass of `for trans in trans_x` builds its matrix
\* from: trans is the k-th VALUE of trans_x, used as an index into both lists
LoopOffset(k) ==
    LET trans == trans_x[k]
    IN  <<PyIndex(trans_x, trans), PyIndex(trans_y, trans)>>

\* the offsets of all passes of the loop, in order
LoopOffsets == [k \in 1 .. Len(trans_x) |-> LoopOffset(k)]

\* the distances the loop appends
ShiftedDistances(query, template) ==
    [k \in 1 .. Len(trans_x) |->
        translate_image(query, template, LoopOffsets[k][1], LoopOffsets[k][2])]

\* matching() as a function: the exception of the unshifted comparison
\* (line 907) leaves the function; otherwise the minimum of the 17 distances
matching(query, template) ==
    LET unshifted == calculate_hamming(query, template)
    IN  IF unshifted.kind # "ok"
        THEN unshifted
        ELSE min(Append(ShiftedDistances(query, template), unshifted))

(***************************************************************************)
(* Specification SpecHamming: calculate_hamming as a pure function of two  *)
(* row vectors drawn from the palette.                                     *)
(***************************************************************************)

RowVector(s) == [rows |-> 1, cols |-> Len(s), px |-> <<s>>]

Codes == UNION {[1 .. n -> Palette] : n \in 1 .. MaxLen}

HammingIdle ==
    /\ h_a = Idle
    /\ h_b = Idle
    /\ h_pc = "idle"
    /\ h_out = Raised("none")

MatchIdle ==
    /\ img_to_match = Idle
    /\ img_template = Idle
    /\ mask_to_match = Idle
    /\ mask_template = Idle
    /\ m_pc = "idle"
    /\ m_evaluated = <<>>
    /\ hamming_distances = <<>>
    /\ m_score = Raised("none")

VerifyIdle ==
    /\ filtered_roi = Idle
    /\ palmprints_list = <<>>
    /\ v_pc = "idle"
    /\ hamming_scores = <<>>
    /\ m_min = [score |-> Raised("none"), user |-> 0]
    /\ v_outcome = "none"

RoiIdle ==
    /\ img_shape = <<0, 0>>
    /\ p_min = <<0, 0>>
    /\ p_max = <<0, 0>>
    /\ r_pc = "idle"
    /\ r_divided = FALSE
    /\ r_exc = "none"
    /\ rotated = <<0, 0>>
    /\ cropped = <<0, 0>>

KeypointsIdle ==
    /\ valleys = <<>>
    /\ valleys_interp = <<>>
    /\ k_first = 0
    /\ k_last = 0
    /\ kp = <<None, None>>
    /\ k_pc = "idle"
    /\ k_exc = "none"

CurvatureIdle ==
    /\ c_img = Idle
    /\ c_p = <<0, 0>>
    /\ c_n = 0
    /\ c_r = 0
    /\ c_pc = "idle"
    /\ neighvals = <<>>
    /\ c_reads = <<>>
    /\ c_ret = Raised("none")

ValleysIdle ==
    /\ qualifies = <<>>
    /\ f_i = 0
    /\ f_valleys = <<>>
    /\ last = 0
    /\ idx = 0
    /\ f_pc = "idle"
    /\ f_exc = "none"

GaborIdle ==
    /\ g_img = Idle
    /\ g_responses = <<>>
    /\ merged_img = Idle
    /\ g_applied = 0
    /\ g_pc = "idle"

\* the database as create_all leaves it: both tables empty
StoreIdle ==
    /\ users = {}
    /\ palmprints = {}
    /\ s_exc = "none"

InterpolIdle ==
    /\ i_points = <<>>
    /\ i_steps = 0
    /\ i_fused = FALSE
    /\ i_s = <<>>
    /\ i_x = <<>>
    /\ i_y = <<>>
    /\ i_out = <<>>
    /\ i_pc = "idle"

\* no function of the preprocessing is running and the store is untouched
OthersIdle ==
    /\ InterpolIdle
    /\ KeypointsIdle
    /\ CurvatureIdle
    /\ ValleysIdle
    /\ GaborIdle
    /\ StoreIdle

InitHamming ==
    /\ OthersIdle
    /\ MatchIdle
    /\ VerifyIdle
    /\ RoiIdle
    /\ h_a \in {RowVector(s) : s \in Codes}
    /\ h_b \in {RowVector(s) : s \in Codes}
    /\ h_pc = "call"
    /\ h_out = Raised("none")

CallHamming ==
    /\ h_pc = "call"
    /\ h_out' = calculate_hamming(h_a, h_b)
    /\ h_pc' = IF h_out'.kind = "ok" THEN "returned" ELSE "raised"
    /\ UNCHANGED <<h_a, h_b, m_vars, v_vars, r_vars, x_vars>>

NextHamming == CallHamming

SpecHamming == InitHamming /\ [][NextHamming]_vars

BinaryValued(img) == \A i \in DOMAIN flatten(img) : flatten(img)[i] \in {0, 255}

\* C5: calculate_hamming returns a distance only for inputs whose values
\* are all one of the two binary sentinels (0 and 255); for any other input
\* it fails.  (The code binarises every input and returns a distance.)
C5_RejectsNonBinary ==
    h_pc = "returned" => BinaryValued(h_a) /\ BinaryValued(h_b)

Sides == MinSide .. MaxSide

Uniform(rows, cols, v) ==
    [rows |-> rows, cols |-> cols,
     px |-> [y \in 1 .. rows |-> [x \in 1 .. cols |-> v]]]

WithPixel(img, p, v) == [img EXCEPT !.px[p[1] + 1][p[2] + 1] = v]

CodeImages(rows, cols) ==
    {Uniform(rows, cols, 255)}
        \cup {WithPixel(Uniform(rows, cols, 255), p, 0) : p \in Pixels(rows, cols)}

\* the first column background, as where the rotation filled the ROI's edge
EdgeMask(rows, cols) ==
    [rows |-> rows, cols |-> cols,
     px |-> [y \in 1 .. rows |-> [x \in 1 .. cols |-> IF x = 1 THEN 0 ELSE 255]]]

\* the template has the query's shape (the program's normal case) or is the
\* smallest square; both masks are all foreground or both have an edge
InitMatch ==
    /\ OthersIdle
    /\ HammingIdle
    /\ VerifyIdle
    /\ RoiIdle
    /\ \E r \in Sides, c \in Sides, masked \in BOOLEAN :
          \E shape \in {<<r, c>>, <<MinSide, MinSide>>} :
             /\ img_to_match \in CodeImages(r, c)
             /\ img_template \in CodeImages(shape[1], shape[2])
             /\ mask_to_match =
                   IF masked THEN EdgeMask(r, c) ELSE Uniform(r, c, 255)
             /\ mask_template =
                   IF masked THEN EdgeMask(shape[1], shape[2])
                   ELSE Uniform(shape[1], shape[2], 255)
    /\ m_pc = "loop"
    /\ m_evaluated = <<>>
    /\ hamming_distances = <<>>
    /\ m_score = Raised("none")

\* the loop `for trans in trans_x` (lines 899-904): every pass appends the
\* distance at its offset
MatchTranslate ==
    /\ m_pc = "loop"
    /\ m_evaluated' = LoopOffsets
    /\ hamming_distances' = ShiftedDistances(img_to_match, img_template)
    /\ m_pc' = "unshifted"
    /\ UNCHANGED <<img_to_match, img_template, mask_to_match, mask_template,
                   m_score, h_vars, v_vars, r_vars, x_vars>>

\* the unshifted comparison (line 907), outside any try block
MatchUnshifted ==
    /\ m_pc = "unshifted"
    /\ LET d == calculate_hamming(img_to_match, img_template)
       IN  IF d.kind = "ok"
           THEN /\ hamming_distances' = Append(hamming_distances, d)
                /\ m_evaluated' = Append(m_evaluated, <<0, 0>>)
                /\ m_pc' = "reduce"
                /\ m_score' = m_score
           ELSE /\ m_pc' = "raised"
                /\ m_score' = d
                /\ UNCHANGED <<hamming_distances, m_evaluated>>
    /\ UNCHANGED <<img_to_match, img_template, mask_to_match, mask_template,
                   h_vars, v_vars, r_vars, x_vars>>

\* lines 911-915
MatchReturn ==
    /\ m_pc = "reduce"
    /\ m_score' = IF Len(hamming_distances) = 0
                  THEN Dist(1, 1)
                  ELSE min(hamming_distances)
    /\ m_pc' = "returned"
    /\ UNCHANGED <<img_to_match, img_template, mask_to_match, mask_template,
                   m_evaluated, hamming_distances, h_vars, v_vars, r_vars, x_vars>>

NextMatch == MatchTranslate \/ MatchUnshifted \/ MatchReturn

SpecMatch == InitMatch /\ [][NextMatch]_vars

SameShape(a, b) == a.rows = b.rows /\ a.cols = b.cols

\* the distances at the 16 offsets listed pairwise in trans_x / trans_y
ListedDistances(query, template) ==
    [k \in 1 .. Len(trans_x) |->
        translate_image(query, template, trans_x[k], trans_y[k])]

\* C1: for a query and a template of equal shape, matching() returns the
\* minimum over the distances at the 16 listed offsets and at the zero
\* offset: no listed offset is skipped or replaced by another.
C1_MinOverListedOffsets ==
    (m_pc = "returned" /\ SameShape(img_to_match, img_template))
        => SameValue(m_score,
                     min(Append(ListedDistances(img_to_match, img_template),
                                calculate_hamming(img_to_match, img_template))))

\* C2: matching() never aborts, whatever the shapes of query and template:
\* every comparison error becomes the distance 1.0 and a score is returned.
C2_NeverAborts == m_pc # "raised"

\* popcount((codeA xor codeB) and (maskA and maskB)) / total_bits, a mask
\* bit being set where the mask is foreground (255)
MaskedDistance(codeA, maskA, codeB, maskB) ==
    LET a == img_to_binary(codeA)
        b == img_to_binary(codeB)
        ma == flatten(maskA)
        mb == flatten(maskB)
    IN  Dist(Cardinality({i \in DOMAIN a :
                            a[i] # b[i] /\ ma[i] = 255 /\ mb[i] = 255}),
             Len(a))

\* C6: the distance of a query/template pair is masked: the unshifted
\* distance that matching() computes equals
\* popcount((codeA xor codeB) and (maskA and maskB)) / total_bits, so a
\* position that a mask marks background contributes nothing.
C6_MaskedDistance ==
    (m_pc \in {"reduce", "returned"} /\ SameShape(img_to_match, img_template))
        => SameValue(hamming_distances[Len(hamming_distances)],
                     MaskedDistance(img_to_match, mask_to_match,
                                    img_template, mask_template))

StripeImages(rows, cols) ==
    {[rows |-> rows, cols |-> cols,
      px |-> [y \in 1 .. rows |-> [x \in 1 .. cols |-> IF y <= k THEN 0 ELSE 255]]] :
        k \in 0 .. rows}

StoredRois == StripeImages(MinSide, MinSide) \cup StripeImages(MinSide, MaxSide)

\* session.query(Palmprint).all(), each print with its decoded ROI and the
\* user it belongs to
PalmprintLists ==
    UNION {{[i \in 1 .. n |-> [roi |-> rois[i], user |-> i]] :
                rois \in [1 .. n -> StoredRois]} : n \in 0 .. MaxTemplates}

InitVerify ==
    /\ OthersIdle
    /\ HammingIdle
    /\ MatchIdle
    /\ RoiIdle
    /\ filtered_roi \in StripeImages(MinSide, MinSide)
    /\ palmprints_list \in PalmprintLists
    /\ v_pc = "loop"
    /\ hamming_scores = <<>>
    /\ m_min = [score |-> Raised("none"), user |-> 0]
    /\ v_outcome = "none"

\* max(hamming_scores, key=score): the first Match of the highest score
RECURSIVE MaxMatchFrom(_, _, _)
MaxMatchFrom(list, i, cur) ==
    IF i > Len(list) THEN cur
    ELSE MaxMatchFrom(list, i + 1,
                      IF LessThan(cur.score, list[i].score) THEN list[i] ELSE cur)

MaxMatch(list) == MaxMatchFrom(list, 2, list[1])

\* min(hamming_scores, key=lambda m: m.score): the first Match of the
\* lowest score
RECURSIVE MinMatchFrom(_, _, _)
MinMatchFrom(list, i, cur) ==
    IF i > Len(list) THEN cur
    ELSE MinMatchFrom(list, i + 1,
                      IF LessThan(list[i].score, cur.score) THEN list[i] ELSE cur)

MinMatch(list) == MinMatchFrom(list, 2, list[1])

\* one pass of the loop over palmprints_list (lines 1000-1007); an
\* exception of matching() leaves main()
VerifyCompare ==
    /\ v_pc = "loop"
    /\ Len(hamming_scores) < Len(palmprints_list)
    /\ LET palmprint == palmprints_list[Len(hamming_scores) + 1]
           score == matching(filtered_roi, palmprint.roi)
       IN  IF score.kind = "ok"
           THEN /\ hamming_scores' =
                      Append(hamming_scores,
                             [score |-> score, user |-> palmprint.user])
                /\ UNCHANGED <<v_pc, v_outcome>>
           ELSE /\ v_pc' = "compare_raised"
                /\ v_outcome' = score.kind
                /\ UNCHANGED hamming_scores
    /\ UNCHANGED <<filtered_roi, palmprints_list, m_min, h_vars, m_vars, r_vars, x_vars>>

\* lines 1010-1050: min() of an empty list raises ValueError
VerifyDecide ==
    /\ v_pc = "loop"
    /\ Len(hamming_scores) = Len(palmprints_list)
    /\ IF Len(hamming_scores) = 0
       THEN /\ v_pc' = "decide_raised"
            /\ v_outcome' = "ValueError"
            /\ UNCHANGED m_min
       ELSE /\ m_min' = MinMatch(hamming_scores)
            /\ v_outcome' = IF Leq(m_min'.score, THRESH_HAMMING)
                            THEN "accept"
                            ELSE "no_match"
            /\ v_pc' = "decided"
    /\ UNCHANGED <<filtered_roi, palmprints_list, hamming_scores,
                   h_vars, m_vars, r_vars, x_vars>>

NextVerify == VerifyCompare \/ VerifyDecide

SpecVerify == InitVerify /\ [][NextVerify]_vars

C4_DecisionNeverRaises ==
    /\ v_pc # "decide_raised"
    /\ v_pc = "decided" => v_outcome \in {"accept", "no_match"}

(***************************************************************************)
(* Specification SpecRoi: one call of transform_to_roi (lines 625-652) on  *)
(* an image of a given shape with two integer keypoints inside it.  Only   *)
(* shapes are kept: the claims are about the size of the ROI.              *)
(***************************************************************************)

ImageSides == {MaxCell * Pitch, (MaxCell + 1) * Pitch}

Coordinates == {k * Pitch : k \in 0 .. MaxCell - 1}

Keypoints == Coordinates \X Coordinates

InitRoi ==
    /\ OthersIdle
    /\ HammingIdle
    /\ MatchIdle
    /\ VerifyIdle
    /\ img_shape \in ImageSides \X ImageSides
    /\ p_min \in Keypoints
    /\ p_max \in Keypoints
    /\ r_pc = "angle"
    /\ r_divided = FALSE
    /\ r_exc = "none"
    /\ rotated = <<0, 0>>
    /\ cropped = <<0, 0>>

\* round(np.linalg.norm(p_max - p_min) * 0.5): half the distance of the
\* keypoints, rounded to the nearest integer, a tie to the even one
HalfNormRounded(dx, dy) ==
    LET d2 == dx * dx + dy * dy
        Abs(n) == IF n < 0 THEN -n ELSE n
        near == {r \in 0 .. Abs(dx) + Abs(dy) :
                    /\ r = 0 \/ (2 * r - 1) * (2 * r - 1) <= d2
                    /\ d2 <= (2 * r + 1) * (2 * r + 1)}
    IN  IF Cardinality(near) = 1
        THEN CHOOSE r \in near : TRUE
        ELSE CHOOSE r \in near : r % 2 = 0

\* lines 636-638: a / b on Python integers; b = 0 raises ZeroDivisionError
RoiAngle ==
    /\ r_pc = "angle"
    /\ LET b == p_min[2] - p_max[2]
       IN  /\ r_divided' = TRUE
           /\ IF b = 0
              THEN r_pc' = "raised" /\ r_exc' = "ZeroDivisionError"
              ELSE r_pc' = "rotate" /\ r_exc' = r_exc
    /\ UNCHANGED <<img_shape, p_min, p_max, rotated, cropped,
                   h_vars, m_vars, v_vars, x_vars>>

\* lines 641-642: the rotated image has the size img.shape[1::-1], that
\* is the shape of the image
RoiRotate ==
    /\ r_pc = "rotate"
    /\ rotated' = img_shape
    /\ r_pc' = "crop"
    /\ UNCHANGED <<img_shape, p_min, p_max, r_divided, r_exc, cropped,
                   h_vars, m_vars, v_vars, x_vars>>

\* lines 645-652: rotated[y_start:y_end, x_start:x_end]
RoiCrop ==
    /\ r_pc = "crop"
    /\ LET y_mid == p_min[2] - HalfNormRounded(p_max[1] - p_min[1],
                                                p_max[2] - p_min[2])
           y_start == y_mid - ROI_RAD
           y_end == y_mid + ROI_RAD
           x_start == p_min[1] + X_OFFSET
           x_end == x_start + 2 * ROI_RAD
       IN  cropped' = <<SliceLen(rotated[1], y_start, y_end),
                        SliceLen(rotated[2], x_start, x_end)>>
    /\ r_pc' = "returned"
    /\ UNCHANGED <<img_shape, p_min, p_max, r_divided, r_exc, rotated,
                   h_vars, m_vars, v_vars, x_vars>>

NextRoi == RoiAngle \/ RoiRotate \/ RoiCrop

SpecRoi == InitRoi /\ [][NextRoi]_vars

\* C9: with p_min.y = p_max.y the angle is not computed by dividing by
\* zero: the case is guarded and ends in a degenerate-keypoints failure.
C9_DegenerateGuarded ==
    /\ r_divided => p_min[2] # p_max[2]
    /\ r_pc = "raised" => r_exc = "DegenerateKeypoints"

\* C10: every ROI returned has 2 * ROI_RAD rows and 2 * ROI_RAD columns,
\* also when the crop window starts at a negative row or column or passes
\* the border of the image.
C10_FixedSize ==
    r_pc = "returned" => cropped = <<2 * ROI_RAD, 2 * ROI_RAD>>

(***************************************************************************)
(* Specification SpecKeypoints: one call of find_keypoints (lines 588-622) *)
(* on a list of valleys as find_valleys returns it: each valley a          *)
(* non-empty list of integer contour points <<x, y>>.                      *)
(*                                                                         *)
(* interpol2d(points, steps) samples at the positions j * (n - 1) /        *)
(* (steps - 1).  Here the interpolated valleys are kept as the exact       *)
(* values the floats of interpol2d round (interpol2d_exact), every         *)
(* coordinate multiplied by steps - 1, so that the comparisons of          *)
(* find_tangent_points are comparisons of integers.  The float arithmetic  *)
(* of interpol2d itself is the subject of SpecInterpol.                    *)
(***************************************************************************)

\* round to the nearest integer, a tie to the even one (np.round), of the
\* fraction num / den with den > 0
round(num, den) ==
    LET q == num \div den
        rest == num - q * den
    IN  IF 2 * rest < den THEN q
        ELSE IF 2 * rest > den THEN q + 1
        ELSE IF q % 2 = 0 THEN q ELSE q + 1

\* np.interp(s, i, f) at s = j * (n - 1) / (steps - 1), times steps - 1:
\* linear between f[k] and f[k + 1] for k = floor(s), f[n - 1] at the end
interp_exact(f, j, steps) ==
    LET n == Len(f)
        den == steps - 1
        num == j * (n - 1)
        k == num \div den
    IN  IF k >= n - 1
        THEN den * f[n]
        ELSE den * f[k + 1] + (num - den * k) * (f[k + 2] - f[k + 1])

\* interpol2d without rounding: `steps` points, sample j = 0 .. steps - 1,
\* each the pair of the interpolated x and y (times steps - 1)
interpol2d_exact(points, steps) ==
    LET x == [q \in 1 .. Len(points) |-> points[q][1]]
        y == [q \in 1 .. Len(points) |-> points[q][2]]
    IN  [j \in 1 .. steps |->
            <<interp_exact(x, j - 1, steps), interp_exact(y, j - 1, steps)>>]

\* the condition of lines 460-463 for one point p of vs: the line through
\* p_1 and p_2, taken at p's y, is at or beyond p's x.  With p_1.y = p_2.y
\* the float division gives nan for p = p_1 and the comparison is False.
OnOrBelow(p_1, p_2, p) ==
    LET d == p_1[2] - p_2[2]
        nom == p_1[1] * (p[2] - p_2[2]) - p_2[1] * (p[2] - p_1[2])
    IN  /\ d # 0
        /\ d > 0 => nom >= p[1] * d
        /\ d < 0 => nom <= p[1] * d

\* all([... for p in vs]) with vs = v_1 + v_2
IsTangent(v_1, v_2, p_1, p_2) ==
    /\ \A q \in 1 .. Len(v_1) : OnOrBelow(p_1, p_2, v_1[q])
    /\ \A q \in 1 .. Len(v_2) : OnOrBelow(p_1, p_2, v_2[q])

\* what find_tangent_points returns: the pair of rounded points, or
\* (None, None); den is the factor the coordinates are multiplied by
TangentPair(p_1, p_2, den) ==
    <<Pixel(round(p_1[1], den), round(p_1[2], den)),
      Pixel(round(p_2[1], den), round(p_2[2], den))>>

\* the two loops with v_2 as the outer one: b is the position in v_2, and
\* for it the first p_1 of v_1 whose condition holds is taken
RECURSIVE ScanInnerFirst(_, _, _, _)
ScanInnerFirst(v_1, v_2, den, b) ==
    IF b > Len(v_2) THEN <<None, None>>
    ELSE LET p_2 == v_2[b]
             hits == {a \in 1 .. Len(v_1) : IsTangent(v_1, v_2, v_1[a], p_2)}
         IN  IF hits = {}
             THEN ScanInnerFirst(v_1, v_2, den, b + 1)
             ELSE TangentPair(v_1[CHOOSE a \in hits : \A o \in hits : a <= o],
                              p_2, den)

\* find_tangent_points with the loops exchanged
find_tangent_points_swapped(v_1, v_2, den) == ScanInnerFirst(v_1, v_2, den, 1)

\* `for p_1 in v_1: for p_2 in v_2:`, a being the position of p_1 in v_1.
\* The inner loop returns at the first p_2 whose condition holds (the
\* least position in hits); with none the outer loop goes on to a + 1.
RECURSIVE Scan(_, _, _, _)
Scan(v_1, v_2, den, a) ==
    IF a > Len(v_1) THEN <<None, None>>
    ELSE LET p_1 == v_1[a]
             hits == {b \in 1 .. Len(v_2) : IsTangent(v_1, v_2, p_1, v_2[b])}
         IN  IF hits = {}
             THEN Scan(v_1, v_2, den, a + 1)
             ELSE TangentPair(p_1,
                              v_2[CHOOSE b \in hits : \A o \in hits : b <= o],
                              den)

find_tangent_points(v_1, v_2, den) == Scan(v_1, v_2, den, 1)

\* list.sort(key=lambda v: v[0][1]): stable, by the y of the first point
RECURSIVE sort(_)
sort(vs) ==
    IF Len(vs) <= 1 THEN vs
    ELSE LET rest == sort(SubSeq(vs, 1, Len(vs) - 1))
             v == vs[Len(vs)]
             before == SelectSeq(rest, LAMBDA w : w[1][2] <= v[1][2])
             after == SelectSeq(rest, LAMBDA w : w[1][2] > v[1][2])
         IN  before \o <<v>> \o after

\* interpol2d(v, 10)
STEPS == 10

\* most valleys in the list given to find_keypoints
MaxValleys == 2

\* the first point of a valley is drawn from the rows 0 .. MaxRow
MaxRow == 1

\* the shapes of the valleys drawn: a single point, and runs of two or
\* three neighbouring contour points, as offsets from the first row
Shapes ==
    { << <<0, 0>> >>,
      << <<0, 0>>, <<0, 1>> >>,
      << <<0, 0>>, <<1, 1>> >>,
      << <<1, 0>>, <<0, 1>> >>,
      << <<0, 0>>, <<1, 0>> >>,
      << <<0, 0>>, <<1, 1>>, <<0, 2>> >>,
      << <<1, 0>>, <<0, 1>>, <<1, 2>> >> }

Valleys ==
    {[q \in 1 .. Len(shape) |-> <<shape[q][1], shape[q][2] + row>>] :
        shape \in Shapes, row \in 0 .. MaxRow}

ValleyLists == UNION {[1 .. n -> Valleys] : n \in 0 .. MaxValleys}

\* the variables of the other functions of the preprocessing and the store
k_rest == <<c_vars, f_vars, g_vars, s_vars, i_vars>>

InitKeypoints ==
    /\ HammingIdle
    /\ MatchIdle
    /\ VerifyIdle
    /\ RoiIdle
    /\ CurvatureIdle
    /\ ValleysIdle
    /\ GaborIdle
    /\ StoreIdle
    /\ InterpolIdle
    /\ valleys \in ValleyLists
    /\ valleys_interp = <<>>
    /\ k_first = 0
    /\ k_last = 0
    /\ kp = <<None, None>>
    /\ k_pc = "check"
    /\ k_exc = "none"

\* lines 596-603: the length check, then the single-point valleys are
\* dropped, then the check that any valley is left
KpCheck ==
    /\ k_pc = "check"
    /\ IF Len(valleys) < 2
       THEN /\ k_pc' = "raised"
            /\ k_exc' = "Expected at least 2 valleys!"
            /\ UNCHANGED valleys
       ELSE /\ valleys' = SelectSeq(valleys, LAMBDA v : Len(v) > 1)
            /\ IF Len(valleys') = 0
               THEN k_pc' = "raised" /\ k_exc' = "No valleys found!"
               ELSE k_pc' = "interpolate" /\ k_exc' = k_exc
    /\ UNCHANGED <<valleys_interp, k_first, k_last, kp,
                   h_vars, m_vars, v_vars, r_vars, k_rest>>

\* lines 606-613: sort, interpolate, v_1 = valleys_interp[0] and
\* v_2 = valleys_interp[-1]
KpInterpolate ==
    /\ k_pc = "interpolate"
    /\ valleys' = sort(valleys)
    /\ valleys_interp' = [q \in 1 .. Len(valleys') |->
                             interpol2d_exact(valleys'[q], STEPS)]
    /\ k_first' = 1
    /\ k_last' = Len(valleys_interp')
    /\ k_pc' = "search"
    /\ UNCHANGED <<kp, k_exc, h_vars, m_vars, v_vars, r_vars, k_rest>>

\* line 616
KpSearch ==
    /\ k_pc = "search"
    /\ kp' = find_tangent_points(valleys_interp[k_first],
                                 valleys_interp[k_last], STEPS - 1)
    /\ k_pc' = "decide"
    /\ UNCHANGED <<valleys, valleys_interp, k_first, k_last, k_exc,
                   h_vars, m_vars, v_vars, r_vars, k_rest>>

\* lines 619-622
KpDecide ==
    /\ k_pc = "decide"
    /\ IF kp[1] = None \/ kp[2] = None
       THEN k_pc' = "raised" /\ k_exc' = "Couldn't find a tangent"
       ELSE k_pc' = "returned" /\ k_exc' = k_exc
    /\ UNCHANGED <<valleys, valleys_interp, k_first, k_last, kp,
                   h_vars, m_vars, v_vars, r_vars, k_rest>>

NextKeypoints == KpCheck \/ KpInterpolate \/ KpSearch \/ KpDecide

SpecKeypoints == InitKeypoints /\ [][NextKeypoints]_vars

\* C11: once the single-point valleys are dropped, find_keypoints goes on
\* only with at least 2 valleys left (with 0 or 1 it has raised), and the
\* tangent search never gets the same valley as v_1 and as v_2.
C11_NeedsTwoUsable ==
    /\ k_pc \in {"interpolate", "search", "decide", "returned"} =>
           Len(valleys) >= 2
    /\ k_pc \in {"decide", "returned"} => k_first # k_last

\* the pairs of positions <<a, b>> of v_1 and v_2 whose line is a tangent
TangentPairs ==
    LET v_1 == valleys_interp[k_first]
        v_2 == valleys_interp[k_last]
    IN  {pair \in (1 .. Len(v_1)) \X (1 .. Len(v_2)) :
            IsTangent(v_1, v_2, v_1[pair[1]], v_2[pair[2]])}

INSIDE == 255

\* largest radius r drawn; the images have sides 2 * MaxRadius and
\* 2 * MaxRadius + 1
MaxRadius == 2

\* the numbers of neighbours drawn: the 32 of find_valleys, the 10 of the
\* tests, and 8
Neighbours == {8, 10, 32}

\* the border test of lines 525-533 with > for >= in both upper limits
IsBorderStrict(p, img, r) ==
    \/ p[1] = 0
    \/ p[2] = 0
    \/ p[1] + r > img.cols
    \/ p[1] - r < 0
    \/ p[2] + r > img.rows
    \/ p[2] - r < 0

\* lines 525-533; img.shape is (rows, cols)
IsBorder(p, img, r) ==
    \/ p[1] = 0
    \/ p[2] = 0
    \/ p[1] + r >= img.cols
    \/ p[1] - r < 0
    \/ p[2] + r >= img.rows
    \/ p[2] - r < 0

\* range(0, 90, stepsize) with stepsize = int(360 / n)
Angles(n) ==
    LET stepsize == 360 \div n
    IN  [q \in 1 .. (90 + stepsize - 1) \div stepsize |-> (q - 1) * stepsize]

\* np.round(np.cos(np.deg2rad(a)), 2) and np.round(np.sin(np.deg2rad(a)), 2),
\* in hundredths, for the angles the drawn n give
Cos100 ==
    [a \in {0, 11, 22, 33, 36, 44, 45, 55, 66, 72, 77, 88} |->
        CASE a = 0 -> 100 [] a = 11 -> 98 [] a = 22 -> 93 [] a = 33 -> 84
          [] a = 36 -> 81 [] a = 44 -> 72 [] a = 45 -> 71 [] a = 55 -> 57
          [] a = 66 -> 41 [] a = 72 -> 31 [] a = 77 -> 22 [] a = 88 -> 3]

Sin100 ==
    [a \in {0, 11, 22, 33, 36, 44, 45, 55, 66, 72, 77, 88} |->
        CASE a = 0 -> 0 [] a = 11 -> 19 [] a = 22 -> 37 [] a = 33 -> 54
          [] a = 36 -> 59 [] a = 44 -> 69 [] a = 45 -> 71 [] a = 55 -> 82
          [] a = 66 -> 91 [] a = 72 -> 95 [] a = 77 -> 97 [] a = 88 -> 100]

\* lines 540-549 for one angle a: the four positions <<y, x>> read
NeighboursAt(p, r, a) ==
    LET y_p == round(100 * p[2] - r * Cos100[a], 100)
        y_n == round(100 * p[2] + r * Cos100[a], 100)
        x_p == round(100 * p[1] + r * Sin100[a], 100)
        x_n == round(100 * p[1] - r * Sin100[a], 100)
    IN  << <<y_p, x_p>>, <<y_n, x_p>>, <<y_n, x_n>>, <<y_p, x_n>> >>

\* the positions the whole loop reads, in order
NeighbourPositions(p, n, r) ==
    LET angles == Angles(n)
    IN  [q \in 1 .. 4 * Len(angles) |->
            NeighboursAt(p, r, angles[((q - 1) \div 4) + 1])[((q - 1) % 4) + 1]]

\* img[y, x] is an IndexError at or beyond the size and below its negative
Indexable(img, pos) ==
    /\ pos[1] >= -img.rows /\ pos[1] < img.rows
    /\ pos[2] >= -img.cols /\ pos[2] < img.cols

\* img[y, x], a negative index counted from the end
PyAt(img, pos) ==
    At(img, IF pos[1] < 0 THEN pos[1] + img.rows ELSE pos[1],
            IF pos[2] < 0 THEN pos[2] + img.cols ELSE pos[2])

RECURSIVE sum(_)
sum(list) == IF Len(list) = 0 THEN 0 ELSE list[1] + sum(Tail(list))

CurvSides == {2 * MaxRadius, 2 * MaxRadius + 1}

\* the binary images drawn: the columns left of `split` inside, the
\* others outside
HalfImages ==
    {[rows |-> h, cols |-> w,
      px |-> [y \in 1 .. h |->
                 [x \in 1 .. w |-> IF x <= split THEN INSIDE ELSE 0]]] :
        h \in CurvSides, w \in CurvSides, split \in 0 .. 2 * MaxRadius + 1}

\* the variables of the other functions of the preprocessing and the store
c_rest == <<k_vars, f_vars, g_vars, s_vars, i_vars>>

InitCurvature ==
    /\ HammingIdle
    /\ MatchIdle
    /\ VerifyIdle
    /\ RoiIdle
    /\ KeypointsIdle
    /\ ValleysIdle
    /\ GaborIdle
    /\ StoreIdle
    /\ InterpolIdle
    /\ c_img \in HalfImages
    /\ c_p \in (-1 .. 2 * MaxRadius + 1) \X (-1 .. 2 * MaxRadius + 1)
    /\ c_n \in Neighbours
    /\ c_r \in 0 .. MaxRadius
    /\ c_pc = "test"
    /\ neighvals = <<>>
    /\ c_reads = <<>>
    /\ c_ret = Raised("none")

\* lines 525-534: at the border, return 0.0
CurvTest ==
    /\ c_pc = "test"
    /\ IF IsBorder(c_p, c_img, c_r)
       THEN c_pc' = "returned" /\ c_ret' = Dist(0, 1)
       ELSE c_pc' = "sample" /\ c_ret' = c_ret
    /\ UNCHANGED <<c_img, c_p, c_n, c_r, neighvals, c_reads,
                   h_vars, m_vars, v_vars, r_vars, c_rest>>

\* lines 536-549: the loop over the angles; a read outside the image
\* leaves the function with IndexError
CurvSample ==
    /\ c_pc = "sample"
    /\ LET positions == NeighbourPositions(c_p, c_n, c_r)
           bad == {q \in 1 .. Len(positions) : ~Indexable(c_img, positions[q])}
       IN  IF bad = {}
           THEN /\ c_reads' = positions
                /\ neighvals' = [q \in 1 .. Len(positions) |->
                                    PyAt(c_img, positions[q])]
                /\ c_pc' = "return"
                /\ c_ret' = c_ret
           ELSE /\ c_reads' = SubSeq(positions, 1,
                                     (CHOOSE q \in bad : \A o \in bad : q <= o) - 1)
                /\ neighvals' = [q \in 1 .. Len(c_reads') |->
                                    PyAt(c_img, positions[q])]
                /\ c_pc' = "raised"
                /\ c_ret' = Raised("IndexError")
    /\ UNCHANGED <<c_img, c_p, c_n, c_r,
                   h_vars, m_vars, v_vars, r_vars, c_rest>>

\* line 551: (sum(neighvals) / inside) / n
CurvReturn ==
    /\ c_pc = "return"
    /\ c_ret' = Dist(sum(neighvals), INSIDE * c_n)
    /\ c_pc' = "returned"
    /\ UNCHANGED <<c_img, c_p, c_n, c_r, neighvals, c_reads,
                   h_vars, m_vars, v_vars, r_vars, c_rest>>

NextCurvature == CurvTest \/ CurvSample \/ CurvReturn

SpecCurvature == InitCurvature /\ [][NextCurvature]_vars

\* the point is within r of a border of the image
WithinBorder ==
    \/ c_p[1] < c_r
    \/ c_p[1] + c_r >= c_img.cols
    \/ c_p[2] < c_r
    \/ c_p[2] + c_r >= c_img.rows

\* C12: for a point within r of any border the function is never past its
\* border test without having returned: it returns exactly 0.0 and no
\* pixel has been read.
C12_BorderIsZero ==
    WithinBorder /\ c_pc # "test" =>
        /\ c_pc = "returned"
        /\ c_ret = Dist(0, 1)
        /\ c_reads = <<>>
        /\ neighvals = <<>>

\* a point r columns short of the right border, all other distances
\* larger than r, after the return
C12_Witness ==
    /\ c_pc = "returned"
    /\ c_r > 0
    /\ c_p[1] + c_r = c_img.cols
    /\ c_p[1] > c_r
    /\ c_p[2] > c_r
    /\ c_p[2] + c_r < c_img.rows

\* the point is farther than r from every border, and not in row or
\* column 0
Interior == ~WithinBorder /\ c_p[1] > 0 /\ c_p[2] > 0

\* C15: for an interior point and n = 32 or n = 10, exactly n neighbours
\* are sampled and the value returned is the number of sampled neighbours
\* equal to `inside`, divided by n: a value between 0 and 1.
C15_FractionOfN ==
    c_pc = "returned" /\ Interior /\ c_n \in {10, 32} =>
        /\ Len(neighvals) = c_n
        /\ SameValue(c_ret,
                     Dist(Cardinality({q \in 1 .. Len(neighvals) :
                                          neighvals[q] = INSIDE}), c_n))
        /\ Leq(Dist(0, 1), c_ret)
        /\ Leq(c_ret, Dist(1, 1))

(***************************************************************************)
(* Specification SpecValleys: the loop of find_valleys (lines 563-585)     *)
(* over a contour.  The test of lines 571-575 on a contour point is kept   *)
(* as its outcome, one boolean per point; a contour point is named by its  *)
(* index in the contour.                                                   *)
(***************************************************************************)

THRESH_CON == 15

\* number of points of the contour
MaxContour == 34

\* most contour points that pass the test
MaxQualifying == 3

\* the contours drawn, as the sequence of the outcomes of the test
Contours ==
    {[q \in 1 .. MaxContour |-> \E c \in DOMAIN passing : passing[c] = q] :
        passing \in UNION {[1 .. n -> 1 .. MaxContour] : n \in 0 .. MaxQualifying}}

\* the variables of the other functions of the preprocessing and the store
f_rest == <<k_vars, c_vars, g_vars, s_vars, i_vars>>

InitValleys ==
    /\ HammingIdle
    /\ MatchIdle
    /\ VerifyIdle
    /\ RoiIdle
    /\ KeypointsIdle
    /\ CurvatureIdle
    /\ GaborIdle
    /\ StoreIdle
    /\ InterpolIdle
    /\ qualifies \in Contours
    /\ f_i = 0
    /\ f_valleys = <<>>
    /\ last = 0
    /\ idx = -1
    /\ f_pc = "loop"
    /\ f_exc = "none"

\* one pass of the loop for a point that fails the test of lines 571-575
FvSkip ==
    /\ f_pc = "loop"
    /\ f_i < Len(qualifies)
    /\ ~qualifies[f_i + 1]
    /\ f_i' = f_i + 1
    /\ UNCHANGED <<qualifies, f_valleys, last, idx, f_pc, f_exc,
                   h_vars, m_vars, v_vars, r_vars, f_rest>>

\* lines 578-580 and 583: a point that passes, more than THRESH_CON after
\* `last`, starts a new valley
FvStart ==
    /\ f_pc = "loop"
    /\ f_i < Len(qualifies)
    /\ qualifies[f_i + 1]
    /\ f_i - last > THRESH_CON
    /\ idx' = idx + 1
    /\ f_valleys' = Append(f_valleys, <<f_i>>)
    /\ last' = f_i
    /\ f_i' = f_i + 1
    /\ UNCHANGED <<qualifies, f_pc, f_exc,
                   h_vars, m_vars, v_vars, r_vars, f_rest>>

\* lines 581-583: otherwise the point is appended to valleys[idx]; an
\* index outside the list (idx = -1 on the empty list) is an IndexError
FvAppend ==
    /\ f_pc = "loop"
    /\ f_i < Len(qualifies)
    /\ qualifies[f_i + 1]
    /\ ~(f_i - last > THRESH_CON)
    /\ IF idx >= Len(f_valleys) \/ idx < -Len(f_valleys)
       THEN /\ f_pc' = "raised"
            /\ f_exc' = "IndexError"
            /\ UNCHANGED <<f_valleys, last, f_i>>
       ELSE /\ LET at == IF idx >= 0 THEN idx + 1 ELSE Len(f_valleys) + idx + 1
               IN  f_valleys' = [f_valleys EXCEPT ![at] = Append(@, f_i)]
            /\ last' = f_i
            /\ f_i' = f_i + 1
            /\ UNCHANGED <<f_pc, f_exc>>
    /\ UNCHANGED <<qualifies, idx, h_vars, m_vars, v_vars, r_vars, f_rest>>

\* line 585
FvReturn ==
    /\ f_pc = "loop"
    /\ f_i = Len(qualifies)
    /\ f_pc' = "returned"
    /\ UNCHANGED <<qualifies, f_i, f_valleys, last, idx, f_exc,
                   h_vars, m_vars, v_vars, r_vars, f_rest>>

NextValleys == FvSkip \/ FvStart \/ FvAppend \/ FvReturn

SpecValleys == InitValleys /\ [][NextValleys]_vars

\* the contour indices that pass the test, in the order of the walk
Qualifying == SelectSeq([q \in 1 .. Len(qualifies) |-> q - 1],
                        LAMBDA c : qualifies[c + 1])

RECURSIVE Concatenation(_)
Concatenation(lists) ==
    IF Len(lists) = 0 THEN <<>> ELSE lists[1] \o Concatenation(Tail(lists))

\* the valley (its position in the list) that holds the contour index c
ValleyOf(c) ==
    CHOOSE v \in 1 .. Len(f_valleys) :
        \E q \in 1 .. Len(f_valleys[v]) : f_valleys[v][q] = c

\* C14: find_valleys never raises; the valleys returned are non-empty,
\* their concatenation is the list of the qualifying points in the order
\* of the walk, and two consecutive qualifying points are in the same
\* valley if and only if their contour indices differ by at most
\* THRESH_CON; the first qualifying point starts the first valley.
C14_GroupsByGap ==
    /\ f_pc # "raised"
    /\ f_pc = "returned" =>
          /\ \A v \in 1 .. Len(f_valleys) : Len(f_valleys[v]) > 0
          /\ Concatenation(f_valleys) = Qualifying
          /\ \A q \in 1 .. Len(Qualifying) - 1 :
                (ValleyOf(Qualifying[q]) = ValleyOf(Qualifying[q + 1]))
                    <=> (Qualifying[q + 1] - Qualifying[q] <= THRESH_CON)
          /\ Len(Qualifying) > 0 => f_valleys[1][1] = Qualifying[1]

(***************************************************************************)
(* Specification SpecGabor: one call of apply_gabor_filters (lines         *)
(* 745-767).  cv.filter2D is a library call: its result for each filter    *)
(* of the bank is drawn, an 8-bit image of the size of the ROI.            *)
(***************************************************************************)

\* most filters in the bank
MaxFilters == 2

\* most columns of the ROI drawn; it has one row
MaxCols == 2

\* the responses drawn: GABOR_THRESHOLD and its two neighbours
Responses == {GABOR_THRESHOLD - 1, GABOR_THRESHOLD, GABOR_THRESHOLD + 1}

ResponseImages(cols) ==
    {[rows |-> 1, cols |-> cols, px |-> <<row>>] :
        row \in [1 .. cols -> Responses]}

\* np.minimum(a, b), element by element
minimum(a, b) ==
    [rows |-> a.rows, cols |-> a.cols,
     px |-> [y \in 1 .. a.rows |->
                [x \in 1 .. a.cols |->
                    IF b.px[y][x] < a.px[y][x] THEN b.px[y][x] ELSE a.px[y][x]]]]

\* lines 764-765: above the threshold 255, then below the threshold 0
threshold(img) ==
    LET above == [rows |-> img.rows, cols |-> img.cols,
                  px |-> [y \in 1 .. img.rows |->
                             [x \in 1 .. img.cols |->
                                 IF img.px[y][x] > GABOR_THRESHOLD
                                 THEN 255 ELSE img.px[y][x]]]]
    IN  [rows |-> img.rows, cols |-> img.cols,
         px |-> [y \in 1 .. img.rows |->
                    [x \in 1 .. img.cols |->
                        IF above.px[y][x] < GABOR_THRESHOLD
                        THEN 0 ELSE above.px[y][x]]]]

\* the variables of the other functions of the preprocessing and the store
g_rest == <<k_vars, c_vars, f_vars, s_vars, i_vars>>

InitGabor ==
    /\ HammingIdle
    /\ MatchIdle
    /\ VerifyIdle
    /\ RoiIdle
    /\ KeypointsIdle
    /\ CurvatureIdle
    /\ ValleysIdle
    /\ StoreIdle
    /\ InterpolIdle
    /\ \E cols \in 1 .. MaxCols :
          /\ g_img = Uniform(1, cols, 0)
          /\ g_responses \in UNION {[1 .. n -> ResponseImages(cols)] :
                                       n \in 0 .. MaxFilters}
    /\ merged_img = Idle
    /\ g_applied = 0
    /\ g_pc = "fill"

\* lines 755-756
GaborFill ==
    /\ g_pc = "fill"
    /\ merged_img' = Uniform(g_img.rows, g_img.cols, 255)
    /\ g_pc' = "filter"
    /\ UNCHANGED <<g_img, g_responses, g_applied,
                   h_vars, m_vars, v_vars, r_vars, g_rest>>

\* lines 759-761: one pass of the loop over the filters
GaborFilter ==
    /\ g_pc = "filter"
    /\ g_applied < Len(g_responses)
    /\ LET filtered_img == g_responses[g_applied + 1]
       IN  merged_img' = minimum(merged_img, filtered_img)
    /\ g_applied' = g_applied + 1
    /\ UNCHANGED <<g_img, g_responses, g_pc,
                   h_vars, m_vars, v_vars, r_vars, g_rest>>

\* lines 764-767
GaborThreshold ==
    /\ g_pc = "filter"
    /\ g_applied = Len(g_responses)
    /\ merged_img' = threshold(merged_img)
    /\ g_pc' = "returned"
    /\ UNCHANGED <<g_img, g_responses, g_applied,
                   h_vars, m_vars, v_vars, r_vars, g_rest>>

NextGabor == GaborFill \/ GaborFilter \/ GaborThreshold

SpecGabor == InitGabor /\ [][NextGabor]_vars

\* C17: the image apply_gabor_filters returns has the size of the ROI and
\* every pixel of it is 0 or 255, also where the merged response is
\* GABOR_THRESHOLD itself.
C17_BinaryCode ==
    g_pc = "returned" =>
        /\ merged_img.rows = g_img.rows
        /\ merged_img.cols = g_img.cols
        /\ \A y \in 1 .. merged_img.rows : \A x \in 1 .. merged_img.cols :
              merged_img.px[y][x] \in {0, 255}

(***************************************************************************)
(* Specification SpecStore: the database functions (lines 207-355) called  *)
(* in any order on a database that starts empty.  A row of palmprints is   *)
(* [id, user_id, roi, mask, original]; a column holds the encoding of an   *)
(* image or NULL.  An image is named by the palmprint it was taken from    *)
(* and by its part.                                                        *)
(***************************************************************************)

\* most rows of the table users
MaxUsers == 2

\* most rows of the table palmprints
MaxPrints == 2

\* the palm images enrolled are numbered 1 .. MaxImages
MaxImages == 2

\* a column that was never set
NULL == [kind |-> "NULL", part |-> "none", of |-> 0]

\* Palmprint.encode: the Base64 text of the PNG of the image
encode(img) == [kind |-> "b64png", part |-> img.part, of |-> img.of]

Image(part, of) == [part |-> part, of |-> of]

\* the tuples (roi, img, mask) enrol() builds
PalmprintTuples ==
    {<<Image("roi", of), Image("original", of), Image("mask", of)>> :
        of \in 1 .. MaxImages}

\* lists of at most two tuples that still fit into the table
PalmprintBatches ==
    {batch \in UNION {[1 .. n -> PalmprintTuples] : n \in 0 .. 2} :
        Cardinality(palmprints) + Len(batch) <= MaxPrints}

\* the id the database gives a new row: one more than the largest
NewId(rows) ==
    IF rows = {} THEN 1
    ELSE 1 + (CHOOSE i \in {row.id : row \in rows} :
                 \A row \in rows : row.id <= i)

\* the ids a call may name: those of the rows and one that is missing
UserIds == 1 .. MaxUsers + 1

PalmprintIds == 1 .. MaxPrints + 1

\* the variables of the functions of the preprocessing
s_rest == <<k_vars, c_vars, f_vars, g_vars, i_vars>>

InitStore ==
    /\ HammingIdle
    /\ MatchIdle
    /\ VerifyIdle
    /\ RoiIdle
    /\ KeypointsIdle
    /\ CurvatureIdle
    /\ ValleysIdle
    /\ GaborIdle
    /\ InterpolIdle
    /\ users = {}
    /\ palmprints = {}
    /\ s_exc = "none"

\* lines 207-229
create_user ==
    /\ Cardinality(users) < MaxUsers
    /\ \E name \in {"a"}, batch \in PalmprintBatches :
          LET user == [id |-> NewId(users), name |-> name]
              first == NewId(palmprints)
          IN  /\ users' = users \cup {user}
              /\ palmprints' = palmprints \cup
                    {[id |-> first + q - 1,
                      user_id |-> user.id,
                      roi |-> encode(batch[q][1]),
                      mask |-> encode(batch[q][3]),
                      original |-> encode(batch[q][2])] : q \in 1 .. Len(batch)}
    /\ s_exc' = "none"
    /\ UNCHANGED <<h_vars, m_vars, v_vars, r_vars, s_rest>>

\* lines 265-283
delete_user ==
    /\ \E user_id \in UserIds :
          IF \A user \in users : user.id # user_id
          THEN /\ s_exc' = "no such user"
               /\ UNCHANGED <<users, palmprints>>
          ELSE /\ palmprints' = {pp \in palmprints : pp.user_id # user_id}
               /\ users' = {user \in users : user.id # user_id}
               /\ s_exc' = "none"
    /\ UNCHANGED <<h_vars, m_vars, v_vars, r_vars, s_rest>>

\* lines 286-305: the rows are built from pp[0] and pp[1] only
insert_palmprints ==
    /\ \E user_id \in UserIds, batch \in PalmprintBatches :
          IF \A user \in users : user.id # user_id
          THEN /\ s_exc' = "no such user"
               /\ UNCHANGED <<users, palmprints>>
          ELSE LET first == NewId(palmprints)
               IN  /\ palmprints' = palmprints \cup
                         {[id |-> first + q - 1,
                           user_id |-> user_id,
                           roi |-> encode(batch[q][1]),
                           mask |-> NULL,
                           original |-> encode(batch[q][2])] :
                             q \in 1 .. Len(batch)}
                   /\ s_exc' = "none"
                   /\ UNCHANGED users
    /\ UNCHANGED <<h_vars, m_vars, v_vars, r_vars, s_rest>>

\* lines 308-337: every argument is an image or None (here FALSE)
update_palmprint ==
    /\ \E palmprint_id \in PalmprintIds, of \in 1 .. MaxImages,
          with_roi \in BOOLEAN, with_original \in BOOLEAN,
          with_mask \in BOOLEAN :
          IF \A pp \in palmprints : pp.id # palmprint_id
          THEN /\ s_exc' = "no such palmprint"
               /\ UNCHANGED palmprints
          ELSE /\ palmprints' =
                     {IF pp.id # palmprint_id THEN pp
                      ELSE [pp EXCEPT
                              !.roi = IF with_roi
                                      THEN encode(Image("roi", of)) ELSE @,
                              !.original = IF with_original
                                           THEN encode(Image("original", of))
                                           ELSE @,
                              !.mask = IF with_mask
                                       THEN encode(Image("mask", of)) ELSE @] :
                        pp \in palmprints}
               /\ s_exc' = "none"
    /\ UNCHANGED <<users, h_vars, m_vars, v_vars, r_vars, s_rest>>

\* lines 340-355
delete_palmprint ==
    /\ \E palmprint_id \in PalmprintIds :
          IF \A pp \in palmprints : pp.id # palmprint_id
          THEN /\ s_exc' = "no such palmprint"
               /\ UNCHANGED palmprints
          ELSE /\ palmprints' = {pp \in palmprints : pp.id # palmprint_id}
               /\ s_exc' = "none"
    /\ UNCHANGED <<users, h_vars, m_vars, v_vars, r_vars, s_rest>>

NextStore ==
    \/ create_user
    \/ delete_user
    \/ insert_palmprints
    \/ update_palmprint
    \/ delete_palmprint

SpecStore == InitStore /\ [][NextStore]_vars

\* C18: after any sequence of calls every row of palmprints holds a ROI,
\* a mask and an original: none of the three columns is NULL.
C18_AllThreeStored ==
    \A pp \in palmprints :
        /\ pp.roi # NULL
        /\ pp.mask # NULL
        /\ pp.original # NULL

(***************************************************************************)
(* Specification SpecInterpol: one call of interpol2d (lines 422-435) in   *)
(* the float arithmetic of numpy.                                          *)
(*                                                                         *)
(* A non-negative number is kept in fixed point as four limbs              *)
(* <<l0, l1, l2, int>>: its value is int + l2 / 2^20 + l1 / 2^40 +         *)
(* l0 / 2^60.  A double in the range of the model (at least 2^-7 in        *)
(* magnitude, or zero, and below 2^13) is such a number with at most 53    *)
(* significant bits; products by small integers and sums of such numbers   *)
(* are exact in fixed point and are then rounded to 53 bits, to nearest,   *)
(* a tie to even, as every IEEE operation rounds.  A signed number is      *)
(* [neg, mag].                                                             *)
(*                                                                         *)
(* np.linspace(start, stop, num) computes step = (stop - start) / (num -   *)
(* 1), then arange(0, num) * step + start, then sets the last element to   *)
(* stop.  np.interp(x, xp, fp) returns fp[j] for x = xp[j], fp[-1] for     *)
(* x >= xp[-1], and slope * (x - xp[j]) + fp[j] between xp[j] and          *)
(* xp[j + 1]; whether the multiplication and the addition round once       *)
(* (fused) or twice depends on the build.                                  *)
(***************************************************************************)

\* 2^20, the base of a limb
LIMB == 1048576

\* significant bits of a double
MANT == 53

RECURSIVE Pow2(_)
Pow2(n) == IF n = 0 THEN 1 ELSE 2 * Pow2(n - 1)

RECURSIVE BitLength(_)
BitLength(n) == IF n = 0 THEN 0 ELSE 1 + BitLength(n \div 2)

Zero == <<0, 0, 0, 0>>

FromNat(n) == <<0, 0, 0, n>>

IntPart(a) == a[4]

FracPart(a) == <<a[1], a[2], a[3], 0>>

Add(a, b) ==
    LET s1 == a[1] + b[1]
        s2 == a[2] + b[2] + s1 \div LIMB
        s3 == a[3] + b[3] + s2 \div LIMB
    IN  <<s1 % LIMB, s2 % LIMB, s3 % LIMB, a[4] + b[4] + s3 \div LIMB>>

\* a - b for a >= b
Sub(a, b) ==
    LET d1 == a[1] - b[1]
        d2 == a[2] - b[2] - (IF d1 < 0 THEN 1 ELSE 0)
        d3 == a[3] - b[3] - (IF d2 < 0 THEN 1 ELSE 0)
    IN  <<d1 % LIMB, d2 % LIMB, d3 % LIMB,
          a[4] - b[4] - (IF d3 < 0 THEN 1 ELSE 0)>>

Less(a, b) ==
    \E q \in 1 .. 4 : a[q] < b[q] /\ \A o \in q + 1 .. 4 : a[o] = b[o]

\* a * n for a natural number n below 2^11
MulSmall(a, n) ==
    LET p1 == a[1] * n
        p2 == a[2] * n + p1 \div LIMB
        p3 == a[3] * n + p2 \div LIMB
    IN  <<p1 % LIMB, p2 % LIMB, p3 % LIMB, a[4] * n + p3 \div LIMB>>

\* the number of bits from the lowest of the fixed point to the highest set
Bits(a) ==
    IF a[4] > 0 THEN 60 + BitLength(a[4])
    ELSE IF a[3] > 0 THEN 40 + BitLength(a[3])
    ELSE IF a[2] > 0 THEN 20 + BitLength(a[2])
    ELSE BitLength(a[1])

\* a, or a plus a non-zero part below the fixed point if `sticky`, rounded
\* to MANT significant bits, to nearest, a tie to even
Round(a, sticky) ==
    LET drop == Bits(a) - MANT
    IN  IF drop <= 0 THEN a
        ELSE LET low == a[1] % Pow2(drop)
                 half == Pow2(drop - 1)
                 odd == IF drop < 20 THEN (a[1] \div Pow2(drop)) % 2 = 1
                        ELSE a[2] % 2 = 1
                 up == \/ low > half
                       \/ low = half /\ (sticky \/ odd)
                 kept == Sub(a, <<low, 0, 0, 0>>)
                 unit == IF drop < 20 THEN <<Pow2(drop), 0, 0, 0>>
                         ELSE <<0, 1, 0, 0>>
             IN  IF up THEN Add(kept, unit) ELSE kept

\* num / den for naturals with den below 2^11, cut at the fixed point
DivFixed(num, den) ==
    LET r3 == num % den
        r2 == (r3 * LIMB) % den
        r1 == (r2 * LIMB) % den
    IN  <<(r1 * LIMB) \div den, (r2 * LIMB) \div den, (r3 * LIMB) \div den,
          num \div den>>

\* whether the cut of DivFixed dropped anything
DivSticky(num, den) ==
    LET r3 == num % den
        r2 == (r3 * LIMB) % den
        r1 == (r2 * LIMB) % den
    IN  (r1 * LIMB) % den # 0

\* the double num / den
Quotient(num, den) == Round(DivFixed(num, den), DivSticky(num, den))

Signed(n) == [neg |-> n < 0, mag |-> FromNat(IF n < 0 THEN -n ELSE n)]

\* -0.0 and 0.0 are equal
Canonical(x) == IF x.mag = Zero THEN [neg |-> FALSE, mag |-> Zero] ELSE x

SAdd(x, y) ==
    IF x.neg = y.neg THEN [neg |-> x.neg, mag |-> Add(x.mag, y.mag)]
    ELSE IF Less(x.mag, y.mag)
         THEN [neg |-> y.neg, mag |-> Sub(y.mag, x.mag)]
         ELSE Canonical([neg |-> x.neg, mag |-> Sub(x.mag, y.mag)])

SRound(x) == Canonical([neg |-> x.neg, mag |-> Round(x.mag, FALSE)])

\* np.linspace(0, stop, num) without the assignment y[-1] = stop
linspace_open(stop, num) ==
    LET step == Quotient(stop, num - 1)
    IN  [j \in 1 .. num |-> Round(MulSmall(step, j - 1), FALSE)]

\* np.linspace(0, stop, num) for integers stop > 0 and num > 1
linspace(stop, num) ==
    LET step == Quotient(stop, num - 1)
    IN  [j \in 1 .. num |->
            IF j = num THEN FromNat(stop)
            ELSE Round(MulSmall(step, j - 1), FALSE)]

\* np.interp(x, xp, fp) for one x >= 0, with xp = 0, 1, .., len(fp) - 1
interp(x, fp, fused) ==
    LET n == Len(fp)
        j == IntPart(x)
    IN  IF j >= n - 1 THEN Signed(fp[n])
        ELSE IF FracPart(x) = Zero THEN Signed(fp[j + 1])
        ELSE LET slope == fp[j + 2] - fp[j + 1]
                 product == [neg |-> slope < 0,
                             mag |-> MulSmall(FracPart(x),
                                              IF slope < 0 THEN -slope
                                              ELSE slope)]
             IN  IF fused
                 THEN SRound(SAdd(product, Signed(fp[j + 1])))
                 ELSE SRound(SAdd(SRound(product), Signed(fp[j + 1])))

\* largest number of steps drawn
MaxSteps == 99

\* the lists of points drawn: those of the two tests, a diagonal and a
\* bent run of three points
PointLists ==
    { << <<0, 0>>, <<0, 1>> >>,
      << <<-2, 4>>, <<0, 0>>, <<2, 4>> >>,
      << <<0, 0>>, <<1, 1>>, <<2, 2>> >>,
      << <<3, 0>>, <<1, 2>>, <<0, 5>> >> }

\* the variables of the other functions of the preprocessing and the store
i_rest == <<k_vars, c_vars, f_vars, g_vars, s_vars>>

InitInterpol ==
    /\ HammingIdle
    /\ MatchIdle
    /\ VerifyIdle
    /\ RoiIdle
    /\ KeypointsIdle
    /\ CurvatureIdle
    /\ ValleysIdle
    /\ GaborIdle
    /\ StoreIdle
    /\ i_points \in PointLists
    /\ i_steps \in 2 .. MaxSteps
    /\ i_fused \in BOOLEAN
    /\ i_s = <<>>
    /\ i_x = <<>>
    /\ i_y = <<>>
    /\ i_out = <<>>
    /\ i_pc = "linspace"

\* lines 430-433: i = arange(len(points)), s = linspace(i[0], i[-1], steps)
IpLinspace ==
    /\ i_pc = "linspace"
    /\ i_s' = linspace(Len(i_points) - 1, i_steps)
    /\ i_pc' = "interp_x"
    /\ UNCHANGED <<i_points, i_steps, i_fused, i_x, i_y, i_out,
                   h_vars, m_vars, v_vars, r_vars, i_rest>>

\* line 435: np.interp(s, i, x)
IpInterpX ==
    /\ i_pc = "interp_x"
    /\ LET x == [q \in 1 .. Len(i_points) |-> i_points[q][1]]
       IN  i_x' = [j \in 1 .. Len(i_s) |-> interp(i_s[j], x, i_fused)]
    /\ i_pc' = "interp_y"
    /\ UNCHANGED <<i_points, i_steps, i_fused, i_s, i_y, i_out,
                   h_vars, m_vars, v_vars, r_vars, i_rest>>

\* line 435: np.interp(s, i, y)
IpInterpY ==
    /\ i_pc = "interp_y"
    /\ LET y == [q \in 1 .. Len(i_points) |-> i_points[q][2]]
       IN  i_y' = [j \in 1 .. Len(i_s) |-> interp(i_s[j], y, i_fused)]
    /\ i_pc' = "zip"
    /\ UNCHANGED <<i_points, i_steps, i_fused, i_s, i_x, i_out,
                   h_vars, m_vars, v_vars, r_vars, i_rest>>

\* line 435: list(zip(...))
IpZip ==
    /\ i_pc = "zip"
    /\ i_out' = [j \in 1 .. (IF Len(i_x) < Len(i_y) THEN Len(i_x) ELSE Len(i_y))
                    |-> <<i_x[j], i_y[j]>>]
    /\ i_pc' = "returned"
    /\ UNCHANGED <<i_points, i_steps, i_fused, i_s, i_x, i_y,
                   h_vars, m_vars, v_vars, r_vars, i_rest>>

NextInterpol == IpLinspace \/ IpInterpX \/ IpInterpY \/ IpZip

SpecInterpol == InitInterpol /\ [][NextInterpol]_vars

\* the input point q (from 0) as a pair of doubles
InputPoint(q) == <<Signed(i_points[q + 1][1]), Signed(i_points[q + 1][2])>>

\* the samples j (from 0) whose index j * (n - 1) / (steps - 1) is an
\* index of the input
Coinciding ==
    {j \in 0 .. i_steps - 1 : (j * (Len(i_points) - 1)) % (i_steps - 1) = 0}

InputIndex(j) == (j * (Len(i_points) - 1)) \div (i_steps - 1)

\* C13 as stated: `steps` points are returned, the first is points[0], the
\* last is points[-1], and every sample whose index coincides with an
\* input index is that input point exactly.
C13_ExactAtInputs ==
    i_pc = "returned" =>
        /\ Len(i_out) = i_steps
        /\ i_out[1] = InputPoint(0)
        /\ i_out[i_steps] = InputPoint(Len(i_points) - 1)
        /\ \A j \in Coinciding : i_out[j + 1] = InputPoint(InputIndex(j))

\* C13, amended: `steps` points are returned, the first is points[0], the
\* last is points[-1]; a sample whose index coincides with an input index
\* is that input point exactly wherever its position j * step was computed
\* without a rounding error, and that is so for every such sample when
\* steps is 5 or 10.
C13_ExactWherePositionExact ==
    i_pc = "returned" =>
        /\ Len(i_out) = i_steps
        /\ i_out[1] = InputPoint(0)
        /\ i_out[i_steps] = InputPoint(Len(i_points) - 1)
        /\ \A j \in Coinciding :
              /\ i_s[j + 1] = FromNat(InputIndex(j)) =>
                    i_out[j + 1] = InputPoint(InputIndex(j))
              /\ i_steps \in {5, STEPS} => i_s[j + 1] = FromNat(InputIndex(j))

\* the parabola of the test with 5 steps: the middle sample is the vertex
C13_Witness ==
    /\ i_pc = "returned"
    /\ Len(i_points) = 3
    /\ i_steps = 5
    /\ 2 \in Coinciding
    /\ i_out[3] = InputPoint(1)
    /\ i_out[2] # i_out[3]

====
